---------------------------- MODULE Spec2Model ----------------------------
(***************************************************************************)
(* A model of src/src/collect_data.py: the allele-frequency histogram      *)
(* get_prob_dist, and the benchmark harness around it (run_sgkit_afdist,   *)
(* processing_time, file_size).                                            *)
(*                                                                         *)
(* Real numbers are modelled exactly, as rationals <<num, den>> with       *)
(* den > 0.  The allele frequencies are drawn from quarters (and 0.5 in the *)
(* worked example), which float64 holds exactly, as it does their pRA and  *)
(* pAA; a comparison of such a value with a bin edge has in float64 the    *)
(* outcome of the exact comparison: the two are equal (at edges float64    *)
(* holds exactly: 0, 0.25, 0.5, 0.75, 1) or differ by far more than an ulp.*)
(***************************************************************************)
EXTENDS Integers, Sequences, FiniteSets, TLC

VARIABLES
    ds,         \* get_prob_dist: the dataset, a sequence of per-variant records
    num_bins,   \* get_prob_dist: the num_bins argument
    pc,         \* get_prob_dist: "ready" before the call, "returned" / "raised" after it
    result,     \* get_prob_dist: what the call produced
    cmd,        \* harness: the command run, "processing_time" or "file_size"
    paths,      \* harness: per path the glob matched, whether its .sgz dataset exists
    idx,        \* harness: the position of the loop in paths
    hpc,        \* harness: where the command is
    tix,        \* processing_time: the position in [1, 2, 8]
    data,       \* harness: the rows collected so far
    csv,        \* harness: the number of rows last written to the output file
    loadCalls,  \* harness: the paths sg.load_dataset was called on
    skipped,    \* harness: the paths reported as skipped
    worker,     \* run_sgkit_afdist: the state of the worker process
    pipe        \* run_sgkit_afdist: the messages sent and not yet received

histVars == <<ds, num_bins, pc, result>>

harnessVars == <<cmd, paths, idx, hpc, tix, data, csv, loadCalls, skipped, worker, pipe>>

vars == <<histVars, harnessVars>>

---------------------------------------------------------------------------
(* Bounds of the model.                                                    *)

MaxRecs == 2    \* variants in a dataset
MaxBins == 4    \* largest num_bins on the grid

---------------------------------------------------------------------------
(* Exact rational arithmetic.                                              *)

Rat(n, d) == <<n, d>>

RatLeq(x, y) == x[1] * y[2] <= y[1] * x[2]

RatLt(x, y) == x[1] * y[2] < y[1] * x[2]

RatEq(x, y) == x[1] * y[2] = y[1] * x[2]

RatAdd(x, y) == <<x[1] * y[2] + y[1] * x[2], x[2] * y[2]>>

RatSub(x, y) == <<x[1] * y[2] - y[1] * x[2], x[2] * y[2]>>

RatMul(x, y) == <<x[1] * y[1], x[2] * y[2]>>

MaxOf(S) == CHOOSE m \in S : \A x \in S : x <= m

RECURSIVE SumOver(_, _)
SumOver(f, S) ==
    IF S = {} THEN 0
    ELSE LET i == CHOOSE x \in S : TRUE IN f[i] + SumOver(f, S \ {i})

---------------------------------------------------------------------------
(* numpy, as get_prob_dist uses it.                                        *)

\* Mutant of linspace: endpoint=False, the points stop short of 1.
linspace_open(num) ==
    IF num < 0 THEN [err |-> "ValueError", val |-> <<>>]
    ELSE [err |-> "none", val |-> [j \in 1..num |-> Rat(j - 1, num)]]

\* np.linspace(0, 1.0, num): raises for num < 0, else num evenly spaced
\* points from 0 to 1 inclusive (num = 1 gives [0.0], num = 0 gives []).
linspace(num) ==
    IF num < 0 THEN [err |-> "ValueError", val |-> <<>>]
    ELSE [err |-> "none",
          val |-> [j \in 1..num |-> IF num = 1 THEN Rat(0, 1) ELSE Rat(j - 1, num - 1)]]

\* Mutant of widen_last: the last edge is left at 1.
widen_none(bins) ==
    IF Len(bins) = 0 THEN [err |-> "IndexError", val |-> <<>>]
    ELSE [err |-> "none", val |-> bins]

\* bins[-1] += 0.01: raises IndexError on an empty array.
widen_last(bins) ==
    IF Len(bins) = 0 THEN [err |-> "IndexError", val |-> <<>>]
    ELSE [err |-> "none",
          val |-> [bins EXCEPT ![Len(bins)] = RatAdd(bins[Len(bins)], Rat(1, 100))]]

\* Mutant of digitize_one: right=True, bins[i-1] < x <= bins[i].
digitize_right(x, bins) == Cardinality({j \in 1..Len(bins) : RatLt(bins[j], x)})

\* np.digitize(x, bins) for increasing bins, right=False: the i with
\* bins[i-1] <= x < bins[i]; 0 below the first edge, len(bins) at or above the last.
digitize_one(x, bins) == Cardinality({j \in 1..Len(bins) : RatLeq(bins[j], x)})

digitize(xs, bins) == [i \in 1..Len(xs) |-> digitize_one(xs[i], bins)]

\* Mutant of bincount: the weights are left out, occurrences are counted.
bincount_unweighted(x, w, minlength) ==
    LET top == IF Len(x) = 0 THEN 0 ELSE MaxOf({x[i] : i \in 1..Len(x)}) + 1
        n   == IF top > minlength THEN top ELSE minlength
    IN [k \in 1..n |-> Rat(Cardinality({i \in 1..Len(x) : x[i] = k - 1}), 1)]

\* np.bincount(x, weights=w, minlength=m): a float array of length
\* max(m, max(x) + 1) whose entry k is the sum of the weights of the
\* positions with x = k.  Entry k is element k + 1 of the sequence.
bincount(x, w, minlength) ==
    LET top == IF Len(x) = 0 THEN 0 ELSE MaxOf({x[i] : i \in 1..Len(x)}) + 1
        n   == IF top > minlength THEN top ELSE minlength
    IN [k \in 1..n |-> Rat(SumOver(w, {i \in 1..Len(x) : x[i] = k - 1}), 1)]

\* Mutant of array_add: a - b.
array_sub(a, b) ==
    IF Len(a) = Len(b)
      THEN [err |-> "none", val |-> [k \in 1..Len(a) |-> RatSub(a[k], b[k])]]
    ELSE IF Len(a) = 1
      THEN [err |-> "none", val |-> [k \in 1..Len(b) |-> RatSub(a[1], b[k])]]
    ELSE IF Len(b) = 1
      THEN [err |-> "none", val |-> [k \in 1..Len(a) |-> RatSub(a[k], b[1])]]
    ELSE [err |-> "ValueError", val |-> <<>>]

\* a + b on one-dimensional arrays: elementwise, a length-1 array being
\* broadcast; any other pair of different lengths raises ValueError.
array_add(a, b) ==
    IF Len(a) = Len(b)
      THEN [err |-> "none", val |-> [k \in 1..Len(a) |-> RatAdd(a[k], b[k])]]
    ELSE IF Len(a) = 1
      THEN [err |-> "none", val |-> [k \in 1..Len(b) |-> RatAdd(a[1], b[k])]]
    ELSE IF Len(b) = 1
      THEN [err |-> "none", val |-> [k \in 1..Len(a) |-> RatAdd(a[k], b[1])]]
    ELSE [err |-> "ValueError", val |-> <<>>]

\* .astype(int) of one float: truncation toward zero.
trunc_int(x) ==
    IF x[1] >= 0 THEN x[1] \div x[2] ELSE -((-x[1]) \div x[2])

astype_int(a) == [k \in 1..Len(a) |-> trunc_int(a[k])]

\* pd.DataFrame({"start": s, "stop": t, "prob_dist": c}): raises ValueError
\* unless the three columns have one length.
DataFrame(s, t, c) ==
    IF Len(s) = Len(t) /\ Len(t) = Len(c)
      THEN [err |-> "none",
            val |-> [i \in 1..Len(s) |-> [start |-> s[i], stop |-> t[i], prob_dist |-> c[i]]]]
    ELSE [err |-> "ValueError", val |-> <<>>]

\* a[:-1] and a[1:]
drop_last(a) == IF Len(a) = 0 THEN <<>> ELSE SubSeq(a, 1, Len(a) - 1)

drop_first(a) == IF Len(a) = 0 THEN <<>> ELSE SubSeq(a, 2, Len(a))

---------------------------------------------------------------------------
(* get_prob_dist(ds, num_bins)                                             *)

make_bins(n) ==
    LET lin == linspace(n + 1)
    IN IF lin.err # "none" THEN [err |-> lin.err, at |-> "bins", val |-> <<>>]
       ELSE LET w == widen_last(lin.val)
            IN [err |-> w.err, at |-> IF w.err = "none" THEN "none" ELSE "bins", val |-> w.val]

pRA_of(af) == RatMul(Rat(2, 1), RatMul(af, RatSub(Rat(1, 1), af)))

pAA_of(af) == RatMul(af, af)

hets_of(d) == [i \in 1..Len(d) |-> d[i].het]

homs_of(d) == [i \in 1..Len(d) |-> d[i].hom]

het_hist(d, bins, n) ==
    bincount(digitize([i \in 1..Len(d) |-> pRA_of(d[i].af)], bins), hets_of(d), n + 1)

hom_hist(d, bins, n) ==
    bincount(digitize([i \in 1..Len(d) |-> pAA_of(d[i].af)], bins), homs_of(d), n + 1)

combine(a, b) ==
    LET s == array_add(a, b)
    IN [err |-> s.err, val |-> astype_int(s.val)]

\* Mutant of frame: count[:-1] in place of count[1:].
frame_from_zero(bins, count) == DataFrame(drop_last(bins), drop_first(bins), drop_last(count))

frame(bins, count) == DataFrame(drop_last(bins), drop_first(bins), drop_first(count))

Raised(e, where) == [status |-> e, at |-> where, rows |-> <<>>]

get_prob_dist(d, n) ==
    LET b == make_bins(n)
    IN IF b.err # "none" THEN Raised(b.err, "bins")
       ELSE LET c == combine(het_hist(d, b.val, n), hom_hist(d, b.val, n))
            IN IF c.err # "none" THEN Raised(c.err, "add")
               ELSE LET f == frame(b.val, c.val)
                    IN IF f.err # "none" THEN Raised(f.err, "frame")
                       ELSE [status |-> "ok", at |-> "none", rows |-> f.val]

---------------------------------------------------------------------------
(* The inputs.                                                             *)

\* Allele frequencies: -0.25 and 1.25 outside [0,1], 0 and 1 at its ends,
\* 0.25, 0.5 and 0.75 inside.
AfGrid == {Rat(k, 4) : k \in (-1)..5}

\* Genotype counts of a variant.
CountGrid == {0, 1}

\* A variant site has at least one alternate genotype.
Records == {r \in [af : AfGrid, het : CountGrid, hom : CountGrid] : r.het + r.hom > 0}

RECURSIVE SeqsUpTo(_, _)
SeqsUpTo(S, n) ==
    IF n = 0 THEN {<<>>}
    ELSE LET shorter == SeqsUpTo(S, n - 1)
         IN shorter \cup {Append(s, x) : s \in {t \in shorter : Len(t) = n - 1}, x \in S}

GridInputs == [ds : SeqsUpTo(Records, MaxRecs), num_bins : (-2)..MaxBins]

\* The worked example: one variant with p = 0.5, 10 heterozygotes, 5 hom-alt; 10 bins.
ScenarioInput == [ds |-> <<[af |-> Rat(1, 2), het |-> 10, hom |-> 5]>>, num_bins |-> 10]

NoResult == [status |-> "none", at |-> "none", rows |-> <<>>]

HarnessIdle ==
    /\ cmd = "none"
    /\ paths = <<>>
    /\ idx = 1
    /\ hpc = "idle"
    /\ tix = 1
    /\ data = <<>>
    /\ csv = 0
    /\ loadCalls = {}
    /\ skipped = {}
    /\ worker = "none"
    /\ pipe = <<>>

InitHist ==
    /\ \E inp \in GridInputs \cup {ScenarioInput} :
          /\ ds = inp.ds
          /\ num_bins = inp.num_bins
    /\ pc = "ready"
    /\ result = NoResult
    /\ HarnessIdle

\* The call returns a data frame.
CallReturns ==
    /\ pc = "ready"
    /\ LET r == get_prob_dist(ds, num_bins)
       IN r.status = "ok" /\ result' = r
    /\ pc' = "returned"
    /\ UNCHANGED <<ds, num_bins, harnessVars>>

\* The call raises.
CallRaises ==
    /\ pc = "ready"
    /\ LET r == get_prob_dist(ds, num_bins)
       IN r.status # "ok" /\ result' = r
    /\ pc' = "raised"
    /\ UNCHANGED <<ds, num_bins, harnessVars>>

NextHist == CallReturns \/ CallRaises

Spec == InitHist /\ [][NextHist]_vars

---------------------------------------------------------------------------
(* The harness: processing_time, file_size and run_sgkit_afdist.           *)

MaxPaths == 2   \* paths the source pattern matches

\* for num_threads in [1, 2, 8]
Threads == <<1, 2, 8>>

\* The truth value of `sg_path.exists`: the attribute is the bound method
\* itself (it is not called), and a method object is true whatever the path.
exists_attr(i) == TRUE

\* if not sg_path.exists: print("Skipping missing", sg_path); continue
skip_missing(i) == ~exists_attr(i)

\* sg.load_dataset(sg_path) returns the dataset of a store that exists and
\* raises on one that does not.
load_dataset_ok(i) == paths[i]

TimeRows(i, t) ==
    <<[path |-> i, prog |-> "bcftools", threads |-> t],
      [path |-> i, prog |-> "sgkit", threads |-> t],
      [path |-> i, prog |-> "savvy", threads |-> t]>>

SizeRows(i) ==
    <<[path |-> i, tool |-> "tsk"], [path |-> i, tool |-> "bcf"],
      [path |-> i, tool |-> "sgkit"], [path |-> i, tool |-> "sav"],
      [path |-> i, tool |-> "genozip"]>>

InitHarness ==
    /\ cmd \in {"processing_time", "file_size"}
    /\ paths \in SeqsUpTo(BOOLEAN, MaxPaths)
    /\ idx = 1
    /\ hpc = "loop"
    /\ tix = 1
    /\ data = <<>>
    /\ csv = 0
    /\ loadCalls = {}
    /\ skipped = {}
    /\ worker = "none"
    /\ pipe = <<>>
    /\ ds = <<>>
    /\ num_bins = 10
    /\ pc = "idle"
    /\ result = NoResult

\* processing_time, the head of one iteration: the skip test, the load of the
\* dataset and the assertions on it.
PT_Path ==
    /\ cmd = "processing_time"
    /\ hpc = "loop"
    /\ idx <= Len(paths)
    /\ IF skip_missing(idx)
         THEN /\ skipped' = skipped \cup {idx}
              /\ idx' = idx + 1
              /\ UNCHANGED <<hpc, tix, loadCalls>>
         ELSE /\ loadCalls' = loadCalls \cup {idx}
              /\ hpc' = IF load_dataset_ok(idx) THEN "bcftools" ELSE "failed"
              /\ tix' = 1
              /\ UNCHANGED <<skipped, idx>>
    /\ UNCHANGED <<histVars, cmd, paths, data, csv, worker, pipe>>

\* processing_time: the loop is over.
PT_End ==
    /\ cmd = "processing_time"
    /\ hpc = "loop"
    /\ idx > Len(paths)
    /\ hpc' = "done"
    /\ UNCHANGED <<histVars, cmd, paths, idx, tix, data, csv, loadCalls, skipped, worker, pipe>>

\* run_bcftools_afdist: subprocess.run(check=True) returns or raises.
PT_Bcftools ==
    /\ hpc = "bcftools"
    /\ \E ok \in BOOLEAN : hpc' = IF ok THEN "sgkit" ELSE "failed"
    /\ UNCHANGED <<histVars, cmd, paths, idx, tix, data, csv, loadCalls, skipped, worker, pipe>>

\* run_sgkit_afdist up to p.start(): a pipe, of which the parent keeps both
\* ends open, and a worker process.
RS_Start ==
    /\ hpc = "sgkit"
    /\ worker' = "running"
    /\ pipe' = <<>>
    /\ hpc' = "recv"
    /\ UNCHANGED <<histVars, cmd, paths, idx, tix, data, csv, loadCalls, skipped>>

\* sgkit_afdist_worker runs to its last statement, conn.send.
W_Send ==
    /\ worker = "running"
    /\ pipe' = Append(pipe, "wall user system")
    /\ worker' = "sent"
    /\ UNCHANGED <<histVars, cmd, paths, idx, hpc, tix, data, csv, loadCalls, skipped>>

\* The worker process ends normally after the send.
W_Exit ==
    /\ worker = "sent"
    /\ worker' = "exit0"
    /\ UNCHANGED <<histVars, cmd, paths, idx, hpc, tix, data, csv, loadCalls, skipped, pipe>>

\* sgkit_afdist_worker raises before the send (the client, the load, the
\* statistics or get_prob_dist fails): the process ends with exit code 1.
W_Fail ==
    /\ worker = "running"
    /\ worker' = "exit1"
    /\ UNCHANGED <<histVars, cmd, paths, idx, hpc, tix, data, csv, loadCalls, skipped, pipe>>

\* value = conn1.recv(): blocks until a message is there.  The parent holds
\* conn2 open, so the end of the worker never ends the wait with EOFError.
RS_Recv ==
    /\ hpc = "recv"
    /\ pipe # <<>>
    /\ pipe' = Tail(pipe)
    /\ hpc' = "join"
    /\ UNCHANGED <<histVars, cmd, paths, idx, tix, data, csv, loadCalls, skipped, worker>>

\* p.join(), the test of p.exitcode, p.close() and the return.
RS_Join ==
    /\ hpc = "join"
    /\ worker \in {"exit0", "exit1"}
    /\ hpc' = IF worker # "exit0" THEN "failed" ELSE "savvy"
    /\ worker' = "none"
    /\ UNCHANGED <<histVars, cmd, paths, idx, tix, data, csv, loadCalls, skipped, pipe>>

\* run_savvy_afdist, the three rows of this thread count and, after the last
\* thread count, the write of the table.
PT_Savvy ==
    /\ hpc = "savvy"
    /\ \E ok \in BOOLEAN :
          IF ~ok
            THEN hpc' = "failed" /\ UNCHANGED <<data, tix, csv, idx>>
            ELSE /\ data' = data \o TimeRows(idx, Threads[tix])
                 /\ IF tix < Len(Threads)
                      THEN tix' = tix + 1 /\ hpc' = "bcftools" /\ UNCHANGED <<csv, idx>>
                      ELSE /\ csv' = Len(data')
                           /\ idx' = idx + 1
                           /\ hpc' = "loop"
                           /\ UNCHANGED tix
    /\ UNCHANGED <<histVars, cmd, paths, loadCalls, skipped, worker, pipe>>

\* file_size, one iteration: the skip test, the load, the assertions, and a
\* row and a write of the table per tool.
FS_Path ==
    /\ cmd = "file_size"
    /\ hpc = "loop"
    /\ idx <= Len(paths)
    /\ IF skip_missing(idx)
         THEN /\ skipped' = skipped \cup {idx}
              /\ idx' = idx + 1
              /\ UNCHANGED <<hpc, data, csv, loadCalls>>
         ELSE /\ loadCalls' = loadCalls \cup {idx}
              /\ IF load_dataset_ok(idx)
                   THEN /\ data' = data \o SizeRows(idx)
                        /\ csv' = Len(data')
                        /\ idx' = idx + 1
                        /\ UNCHANGED hpc
                   ELSE hpc' = "failed" /\ UNCHANGED <<data, csv, idx>>
              /\ UNCHANGED skipped
    /\ UNCHANGED <<histVars, cmd, paths, tix, worker, pipe>>

\* file_size after the loop: print(df), where df is bound only once a row
\* has been written.
FS_End ==
    /\ cmd = "file_size"
    /\ hpc = "loop"
    /\ idx > Len(paths)
    /\ hpc' = IF csv = 0 THEN "failed" ELSE "done"
    /\ UNCHANGED <<histVars, cmd, paths, idx, tix, data, csv, loadCalls, skipped, worker, pipe>>

NextHarness ==
    \/ PT_Path \/ PT_End \/ PT_Bcftools \/ RS_Start \/ W_Send \/ W_Exit \/ W_Fail
    \/ RS_Recv \/ RS_Join \/ PT_Savvy \/ FS_Path \/ FS_End

SpecHarness == InitHarness /\ [][NextHarness]_vars

\* C9: when the worker process of run_sgkit_afdist ends with a failure, the
\* parent goes on to raise: it is never left waiting on the pipe with nothing
\* that can still happen.
C9_FailurePropagates == (worker = "exit1") => ENABLED NextHarness

\* C10: a path whose .sgz dataset does not exist is reported as skipped and
\* passed over: its dataset is never loaded, and the command goes on.
C10_SkipMissing ==
    \A i \in 1..Len(paths) :
        ~paths[i] => /\ i \notin loadCalls
                     /\ (i < idx => i \in skipped)
                     /\ (i = idx => hpc # "failed")


---------------------------------------------------------------------------
(* Properties of get_prob_dist.                                            *)

InUnit(af) == RatLeq(Rat(0, 1), af) /\ RatLeq(af, Rat(1, 1))

ValidInput == num_bins > 0 /\ \A i \in 1..Len(ds) : InUnit(ds[i].af)

InteriorInput ==
    /\ num_bins > 0
    /\ \A i \in 1..Len(ds) : RatLt(Rat(0, 1), ds[i].af) /\ RatLt(ds[i].af, Rat(1, 1))

InRow(v, row) == RatLeq(row.start, v) /\ RatLt(v, row.stop)

ExpectedCount(row) ==
    SumOver(hets_of(ds), {i \in 1..Len(ds) : InRow(pRA_of(ds[i].af), row)})
    + SumOver(homs_of(ds), {i \in 1..Len(ds) : InRow(pAA_of(ds[i].af), row)})

Counts(rows) == [i \in 1..Len(rows) |-> rows[i].prob_dist]

Total(rows) == SumOver(Counts(rows), 1..Len(rows))

InputTotal == SumOver([i \in 1..Len(ds) |-> ds[i].het + ds[i].hom], 1..Len(ds))

IsScenario == ds = ScenarioInput.ds /\ num_bins = ScenarioInput.num_bins

Finished == pc \in {"returned", "raised"}

\* C1: on allele frequencies in [0,1] and num_bins > 0 the call returns, and
\* the count of every row is the sum of het_count over the variants whose pRA
\* lies in [start, stop) plus the sum of hom_alt_count over the variants whose
\* pAA lies in [start, stop); the worked example (p = 0.5, het 10, hom 5,
\* 10 bins) gives 10 in bin index 5, 5 in bin index 2 and 0 elsewhere.
C1_BinCounts ==
    (Finished /\ ValidInput) =>
        /\ result.status = "ok"
        /\ \A i \in 1..Len(result.rows) :
              result.rows[i].prob_dist = ExpectedCount(result.rows[i])
        /\ IsScenario =>
              /\ Len(result.rows) = 10
              /\ \A i \in 1..10 :
                    result.rows[i].prob_dist = (IF i = 6 THEN 10 ELSE IF i = 3 THEN 5 ELSE 0)

C1_Witness ==
    /\ pc = "returned"
    /\ IsScenario
    /\ Len(result.rows) = 10
    /\ result.rows[6].prob_dist = 10
    /\ result.rows[3].prob_dist = 5

\* C2: when every allele frequency lies strictly inside (0,1) and num_bins > 0,
\* the counts of the returned rows add up to the sum of het_count + hom_alt_count
\* over the input.
C2_Conservation ==
    (Finished /\ InteriorInput) =>
        /\ result.status = "ok"
        /\ Total(result.rows) = InputTotal

C2_Witness ==
    /\ pc = "returned"
    /\ InteriorInput
    /\ Len(ds) = 2
    /\ num_bins = 2
    /\ InputTotal = 4
    /\ Total(result.rows) = 4
    /\ result.rows[2].prob_dist > 0

\* C3: on valid input with num_bins = N > 0 the call returns exactly N rows in
\* increasing order of start, the first starting at 0, each row stopping where
\* the next starts, and the last stopping at or above 1.
C3_Coverage ==
    (Finished /\ ValidInput) =>
        /\ result.status = "ok"
        /\ Len(result.rows) = num_bins
        /\ RatEq(result.rows[1].start, Rat(0, 1))
        /\ \A i \in 1..(num_bins - 1) :
              /\ RatEq(result.rows[i].stop, result.rows[i + 1].start)
              /\ RatLt(result.rows[i].start, result.rows[i + 1].start)
        /\ RatLeq(Rat(1, 1), result.rows[num_bins].stop)

C3_Witness ==
    /\ pc = "returned"
    /\ ValidInput
    /\ num_bins = 3
    /\ Len(result.rows) = 3
    /\ \E i \in 1..Len(ds) : RatEq(pAA_of(ds[i].af), Rat(1, 1))

\* The rows (by index, 1 = first) that a lone variant with frequency af puts
\* a het weight / a hom-alt weight into.
HetRows(af, n) ==
    LET r == get_prob_dist(<<[af |-> af, het |-> 1, hom |-> 0]>>, n)
    IN {i \in 1..Len(r.rows) : r.rows[i].prob_dist # 0}

HomRows(af, n) ==
    LET r == get_prob_dist(<<[af |-> af, het |-> 0, hom |-> 1]>>, n)
    IN {i \in 1..Len(r.rows) : r.rows[i].prob_dist # 0}

\* v is the interior edge j/n (the stop of row j and the start of row j + 1).
AtEdge(v, j, n) == v[1] * n = j * v[2]

\* C4 as stated: a pRA or pAA exactly at an interior edge is counted in the
\* lower-indexed of the two bins that meet there.
C4_TieGoesLower ==
    (pc = "returned" /\ ValidInput) =>
        \A i \in 1..Len(ds) :
            LET hetRows == HetRows(ds[i].af, num_bins)
                homRows == HomRows(ds[i].af, num_bins)
            IN \A j \in 1..(num_bins - 1) :
                  /\ AtEdge(pRA_of(ds[i].af), j, num_bins) => hetRows = {j}
                  /\ AtEdge(pAA_of(ds[i].af), j, num_bins) => homRows = {j}

\* C4 amended: every variant puts its het_count into exactly one row and its
\* hom_alt_count into exactly one row; a pRA or pAA exactly at an interior edge
\* is counted in the higher-indexed bin, the one that starts at that edge; a
\* value of exactly 1 is counted in the last bin.
C4_TieGoesUpper ==
    (pc = "returned" /\ ValidInput) =>
        \A i \in 1..Len(ds) :
            LET hetRows == HetRows(ds[i].af, num_bins)
                homRows == HomRows(ds[i].af, num_bins)
            IN /\ Cardinality(hetRows) = 1
               /\ Cardinality(homRows) = 1
               /\ \A j \in 1..(num_bins - 1) :
                     /\ AtEdge(pRA_of(ds[i].af), j, num_bins) => hetRows = {j + 1}
                     /\ AtEdge(pAA_of(ds[i].af), j, num_bins) => homRows = {j + 1}
               /\ RatEq(pAA_of(ds[i].af), Rat(1, 1)) => homRows = {num_bins}

C4_Witness ==
    /\ pc = "returned"
    /\ ValidInput
    /\ num_bins = 4
    /\ \E i \in 1..Len(ds) :
          /\ AtEdge(pRA_of(ds[i].af), 2, 4)
          /\ AtEdge(pAA_of(ds[i].af), 1, 4)
          /\ ds[i].het = 1
          /\ ds[i].hom = 1
    /\ result.rows[3].prob_dist > 0
    /\ result.rows[2].prob_dist > 0

\* What a lone variant r yields with n bins.
Alone(r, n) == get_prob_dist(<<r>>, n)

\* C5: with num_bins > 0, a variant with allele frequency 1 adds its
\* hom_alt_count to the last row and its het_count to the first; a variant with
\* allele frequency 0 adds both to the first row; nothing lands outside the rows.
C5_Extremes ==
    (Finished /\ ValidInput) =>
        \A i \in 1..Len(ds) :
            LET r    == ds[i]
                one  == RatEq(r.af, Rat(1, 1))
                zero == RatEq(r.af, Rat(0, 1))
                last == IF one THEN num_bins ELSE 1
                solo == Alone(r, num_bins)
            IN (one \/ zero) =>
                  /\ result.status = "ok"
                  /\ solo.status = "ok"
                  /\ Len(solo.rows) = num_bins
                  /\ \A k \in 1..num_bins :
                        solo.rows[k].prob_dist
                            = (IF k = last THEN r.hom ELSE 0) + (IF k = 1 THEN r.het ELSE 0)
                  /\ result.rows[last].prob_dist >= r.hom + (IF last = 1 THEN r.het ELSE 0)
                  /\ result.rows[1].prob_dist >= r.het

C5_Witness ==
    /\ pc = "returned"
    /\ num_bins = 4
    /\ Len(ds) = 2
    /\ RatEq(ds[1].af, Rat(1, 1)) /\ ds[1].het = 1 /\ ds[1].hom = 1
    /\ RatEq(ds[2].af, Rat(0, 1)) /\ ds[2].het = 1 /\ ds[2].hom = 1
    /\ result.rows[4].prob_dist = 1
    /\ result.rows[1].prob_dist = 3

\* C6: if some allele frequency is below 0 or above 1 the call fails; it never
\* returns a histogram.
C6_OutOfRangeRaises ==
    (Finished /\ \E i \in 1..Len(ds) : ~InUnit(ds[i].af)) => result.status # "ok"

\* C7: if num_bins <= 0 the call fails, and fails before any binning is done.
C7_BadBinsRaise ==
    (Finished /\ num_bins <= 0) => (result.status # "ok" /\ result.at = "bins")

\* C8: on valid input with num_bins > 0 every returned count is a non-negative
\* integer.
C8_NonNegative ==
    (Finished /\ ValidInput) =>
        /\ result.status = "ok"
        /\ \A i \in 1..Len(result.rows) : result.rows[i].prob_dist \in Nat

C8_Witness ==
    /\ pc = "returned"
    /\ ValidInput
    /\ Len(ds) = 2
    /\ \E i \in 1..Len(result.rows) : result.rows[i].prob_dist >= 3
    /\ \E i \in 1..Len(result.rows) : result.rows[i].prob_dist = 0

=============================================================================
